---- MODULE Spec2Model ----
(***************************************************************************)
(* SeekingHTTP (seekinghttp.go): an io.ReadSeeker / io.ReaderAt over HTTP  *)
(* GETs with Range headers, one cache window (last, lastOffset), a lazily  *)
(* discovered size (KnownSize) and a cursor (offset).                      *)
(*                                                                         *)
(* The type is not concurrency safe and every method runs to completion on *)
(* the caller's goroutine, so each public method is one atomic action.     *)
(* The HTTP client is an injected interface: its answer to a request is an *)
(* input of the action, drawn from the answers of the server in use.       *)
(***************************************************************************)
EXTENDS Integers, Sequences, FiniteSets, TLC

VARIABLES
    offset,      \* s.offset: the cursor of Read/Seek
    KnownSize,   \* s.KnownSize: Nil, or <<size>>
    MinFetch,    \* s.MinFetch
    last,        \* s.last: Nil, or <<bytes of the buffer>>
    lastOffset,  \* s.lastOffset
    url,         \* s.url: Nil, or <<"parsed">> once newReq has parsed s.URL
    chunk,       \* len(buf) of a caller that reads with one buffer; 0: any
    server,      \* which server the injected client talks to
    lastOp,      \* the call that has just returned, with its arguments and result
    faults,      \* how many answers that were not the server's own were given
    prev,        \* history: what the call before lastOp was
    seq          \* history: the bytes delivered by Read calls since construction

vars == <<offset, KnownSize, MinFetch, last, lastOffset, url, chunk, server, faults,
          lastOp, prev, seq>>

----------------------------------------------------------------------------
(* Bounds of the model *)

\* number of bytes of the remote resource
ResSize == 2
\* the non-zero MinFetch setting (the default, 1 MiB, scaled down)
SmallFetch == 2
\* how many answers that are not the server's own one instance is given
MaxFaults == 1

\* the resource: byte i of it is i+1, so no two bytes are equal and none is 0
Resource == [i \in 1..ResSize |-> i]

MaxCursor == ResSize + 1
CursorRange == (0 - 1)..MaxCursor
BufLens == 0..ResSize
RawBufLens == {0, 1, ResSize}
ReadOffsets == (0 - 1)..MaxCursor
RawOffsets == 0..ResSize
Lengths == 0..MaxCursor
SeekOffsets == (0 - 1)..MaxCursor

----------------------------------------------------------------------------
(* Go values *)

\* a nil pointer, and a pointer to x
Nil == <<>>
Some(x) == <<x>>

Min(a, b) == IF a <= b THEN a ELSE b
Max(a, b) == IF a >= b THEN a ELSE b

\* a caller's fresh buffer: make([]byte, n)
MakeBuf(n) == [i \in 1..n |-> 0]

\* copy(dst, src): min(len(dst), len(src)) bytes, the rest of dst untouched
Copy(dst, src) == [i \in 1..Len(dst) |-> IF i <= Len(src) THEN src[i] ELSE dst[i]]

\* b[from:to] of a Go slice (0-based, to exclusive)
Slice(b, from, to) == SubSeq(b, from + 1, to)

\* io.SeekStart, io.SeekCurrent, io.SeekEnd
SeekStart == 0
SeekCurrent == 1
SeekEnd == 2
Whences == {SeekStart, SeekCurrent, SeekEnd, 3}

\* http.StatusOK, http.StatusPartialContent, and a non-success status
StatusOK == 200
StatusPartialContent == 206
StatusNotSatisfiable == 416

----------------------------------------------------------------------------
(* The transport: HttpClient.Do *)

\* fmtRange: the Range header "bytes=<from>-<to>", kept as its two numbers
fmtRange(from, l) ==
    [from |-> from, to |-> IF l = 0 THEN from ELSE from + (l - 1)]

\* What Do returns for a GET:
\*   fault "newReq": the request cannot be built (the URL does not parse)
\*   fault "do":     Do returns an error, no response
\*   fault "read":   the body fails after `body` has been read from it
\*   fault "close":  draining or closing the body fails
\*   cl:             resp.ContentLength (-1: unknown)
\*   dev:            the answer is not the one the server in use would give
Resp(fault, status, cl, body, dev) ==
    [fault |-> fault, status |-> status, cl |-> cl, body |-> body, dev |-> dev]

\* the bytes [from, to] of the resource, cut at its end
RangeOf(from, to) ==
    IF from < 0 \/ from >= ResSize THEN <<>>
    ELSE Slice(Resource, from, Min(to + 1, ResSize))

\* a server that honours Range: 206 with the range, 416 at or past the end
RangeServer(rng) ==
    IF rng.from < 0 \/ rng.from >= ResSize
    THEN {Resp("none", StatusNotSatisfiable, 0, <<>>, FALSE)}
    ELSE LET b == RangeOf(rng.from, rng.to)
         IN  {Resp("none", StatusPartialContent, Len(b), b, FALSE)}

\* a server that ignores Range: 200 with the whole resource
FullServer(rng) == {Resp("none", StatusOK, ResSize, Resource, FALSE)}

Servers == {"range", "full"}

Honest(srv, rng) == IF srv = "range" THEN RangeServer(rng) ELSE FullServer(rng)

ContentLengthOf(k, b) ==
    CASE k = "unknown" -> 0 - 1
      [] k = "zero"    -> 0
      [] k = "wrong"   -> Len(b) + 1
      [] OTHER         -> Len(b)

Success2xx == {StatusOK, StatusPartialContent}

\* any answer: newReq or Do failing, a non-success status, or a 200/206 with
\* the range asked for, that range one byte short or one byte long, or the
\* whole resource, read whole or failing on the way, with a content-length
\* that is right, unknown, zero or wrong, the body closing well or not
AnyServer(rng) ==
    LET asked == RangeOf(rng.from, rng.to)
        short == RangeOf(rng.from, rng.to - 1)
        long  == RangeOf(rng.from, rng.to + 1)
    IN  {Resp("newReq", 0, 0, <<>>, TRUE), Resp("do", 0, 0, <<>>, TRUE)}
        \cup {Resp(f, StatusNotSatisfiable, 0, <<>>, TRUE) : f \in {"none", "close"}}
        \cup {Resp("none", st, Len(b), b, TRUE) :
                  st \in Success2xx, b \in {asked, short, long, Resource}}
        \cup {Resp("close", StatusPartialContent, Len(asked), asked, TRUE)}
        \cup {Resp("read", st, Len(asked), short, TRUE) : st \in Success2xx}
        \cup {Resp("none", st, ContentLengthOf(k, asked), asked, TRUE) :
                  st \in Success2xx, k \in {"unknown", "zero", "wrong"}}

\* the answers Do may give: the server's own, and any answer while fewer than
\* MaxFaults such answers have been given to this instance
Do(srv, rng, given) ==
    Honest(srv, rng) \cup (IF given < MaxFaults THEN AnyServer(rng) ELSE {})

\* What Do returns for the HEAD of Size: an error, or a content-length
HeadResp(fault, cl, dev) == [fault |-> fault, cl |-> cl, dev |-> dev]

HeadDo(srv, given) ==
    {HeadResp("none", ResSize, FALSE)}
    \cup (IF given < MaxFaults
          THEN {HeadResp("newReq", 0, TRUE), HeadResp("do", 0, TRUE)}
               \cup {HeadResp("none", cl, TRUE) : cl \in {0 - 1, 0, ResSize - 1}}
          ELSE {})

----------------------------------------------------------------------------
(* ReadAtWithLength *)

\* the receiver's fields that ReadAtWithLength reads and writes
Fields == [KnownSize |-> KnownSize, MinFetch |-> MinFetch, last |-> last,
           lastOffset |-> lastOffset]

\* the result of a call: the values returned, the caller's buffer, the fields
\* afterwards, and what the call did with the transport
Ret(s, n, err, buf, rng, status, hit) ==
    [n |-> n, rawN |-> n, err |-> err, rawErr |-> err, buf |-> buf, s |-> s,
     calls |-> IF rng = Nil THEN 0 ELSE 1, rng |-> rng,
     status |-> status, cl |-> 0, fault |-> "none", hit |-> hit,
     closed |-> IF status = "none" THEN "none" ELSE "yes"]

AmplifyNone(minFetch, length) == length

\* "Set the length to be at least MinFetch if set."
Amplify(minFetch, length) ==
    IF minFetch # 0 THEN Max(length, minFetch) ELSE length

\* "If the size is known, cap the length to the size."
CapNoClamp(ks, off, length) == length

Cap(ks, off, length) ==
    IF ks # Nil THEN Min(ks[1] - off, length) ELSE length

\* the bytes a cache hit copies: s.last.Bytes()[start:end-s.lastOffset]
HitBytesFromStart(s, off, length) == Slice(s.last[1], 0, length)

HitBytes(s, off, length) ==
    LET start == off - s.lastOffset
        end == off + length
    IN  Slice(s.last[1], start, end - s.lastOffset)

CacheHitOverlap(s, off, length) ==
    /\ s.last # Nil
    /\ off >= s.lastOffset
    /\ off <= s.lastOffset + Len(s.last[1])

\* the cache-hit test
CacheHit(s, off, length) ==
    /\ s.last # Nil
    /\ off >= s.lastOffset
    /\ off + length <= s.lastOffset + Len(s.last[1])

\* the status branch taken when the status is neither 200 nor 206
NonSuccessDropsWindow(s, buf, rng) ==
    Ret([s EXCEPT !.last = Nil, !.lastOffset = 0], 0, "EOF", buf, Some(rng), "other", FALSE)

NonSuccess(s, buf, rng) == Ret(s, 0, "EOF", buf, Some(rng), "other", FALSE)

\* the size adopted from a 200 response
AdoptAlways(ks, status, contentLength) ==
    IF status = StatusOK THEN Some(contentLength) ELSE ks

Adopt(ks, status, contentLength) ==
    IF status = StatusOK /\ ks = Nil THEN Some(contentLength) ELSE ks

\* the count returned on the fetch path, before the cut to len(buf)
FetchedNoCap(contentLength, length) == contentLength

Fetched(contentLength, length) == Min(contentLength, length)

\* the 200/206 branch: the body replaces the window, then the content-length
\* is compared with the bytes read
Success(s, buf, off, length, rng, resp) ==
    LET st == IF resp.status = StatusOK THEN "200" ELSE "206"
        \* s.lastOffset = off; s.last reset; s.last.ReadFrom(resp.Body)
        s1 == [s EXCEPT !.lastOffset = off, !.last = Some(resp.body)]
        n == Len(resp.body)
    IN  IF resp.fault = "read"
        THEN [Ret(s1, 0, "readErr", buf, Some(rng), st, FALSE)
                 EXCEPT !.cl = resp.cl, !.fault = resp.fault]
        ELSE IF resp.cl # 0 /\ n # resp.cl
        THEN [Ret(s1, 0, "mismatch", buf, Some(rng), st, FALSE)
                 EXCEPT !.cl = resp.cl, !.fault = resp.fault]
        ELSE LET contentLength == IF resp.cl = 0 THEN n ELSE resp.cl
                 s2 == IF resp.cl = 0 THEN s1
                       ELSE [s1 EXCEPT !.KnownSize = Adopt(s.KnownSize, resp.status, contentLength)]
                 bufN == Min(Fetched(contentLength, length), Len(buf))
                 \* the deferred drain and close set err when it is still nil
                 err == IF resp.fault = "close" THEN "closeErr" ELSE "nil"
             IN  [Ret(s2, bufN, err, Copy(buf, resp.body), Some(rng), st, FALSE)
                    EXCEPT !.cl = resp.cl, !.fault = resp.fault]

\* the cache-miss path: newReq, Client.Do, the status branch
Miss(s, buf, off, length, resp) ==
    LET rng == fmtRange(off, length)
    IN  IF resp.fault = "newReq"
        THEN [Ret(s, 0, "urlErr", buf, Nil, "none", FALSE) EXCEPT !.fault = resp.fault]
        ELSE IF resp.fault = "do"
        THEN [Ret(s, 0, "doErr", buf, Some(rng), "none", FALSE) EXCEPT !.fault = resp.fault]
        ELSE IF resp.status = StatusOK \/ resp.status = StatusPartialContent
        THEN Success(s, buf, off, length, rng, resp)
        ELSE [NonSuccess(s, buf, rng) EXCEPT !.fault = resp.fault]

\* the length after amplification and the cap (negative: off is past the
\* known size)
EffLength(s, off, length) == Cap(s.KnownSize, off, Amplify(s.MinFetch, length))

\* ReadAtWithLength(buf, off, length), `resp` being what Do would answer
ReadAtWithLength(s, buf, off, length, resp) ==
    IF off < 0
    THEN Ret(s, 0, "EOF", buf, Nil, "none", FALSE)
    ELSE LET l == EffLength(s, off, length)
         IN  IF l < 0
             THEN Ret(s, 0, "EOF", buf, Nil, "none", FALSE)
             ELSE IF CacheHit(s, off, l)
             THEN Ret(s, Min(Len(buf), l), "nil", Copy(buf, HitBytes(s, off, l)),
                      Nil, "none", TRUE)
             ELSE Miss(s, buf, off, l, resp)

\* the Range header ReadAtWithLength would send for (off, length)
RangeFor(s, off, length) == fmtRange(off, Max(EffLength(s, off, length), 0))

----------------------------------------------------------------------------
(* ReadAt *)

ReadAtNoEOF(r, buflen) == [r EXCEPT !.n = Min(buflen, r.n)]

\* n = min(len(buf), n); a short count without an error becomes io.EOF
ReadAtResult(r, buflen) ==
    LET n == Min(buflen, r.n)
    IN  [r EXCEPT !.n = n,
                  !.err = IF n # buflen /\ r.err = "nil" THEN "EOF" ELSE r.err]

ReadAt(s, buf, off, resp) ==
    ReadAtResult(ReadAtWithLength(s, buf, off, Len(buf), resp), Len(buf))

----------------------------------------------------------------------------
(* Read *)

ReadCursorAlways(cur, n, err) == cur + n

ReadCursorNever(cur, n, err) == cur

\* "if err == nil { s.offset += int64(n) }"
ReadCursor(cur, n, err) == IF err = "nil" THEN cur + n ELSE cur

----------------------------------------------------------------------------
(* Size *)

SizeRet(n, err, ks, calls, closed, cl) ==
    [n |-> n, err |-> err, ks |-> ks, calls |-> calls, closed |-> closed, cl |-> cl,
     fault |-> CASE err = "urlErr" -> "newReq"
                 [] err = "doErr" -> "do"
                 [] OTHER -> "none"]

\* Size(), `head` being what Do would answer to the HEAD request; the
\* response body is left as Do returned it
SizeAlwaysProbes(ks, head) ==
    IF head.fault = "newReq"
    THEN SizeRet(0, "urlErr", ks, 0, "none", 0)
    ELSE IF head.fault = "do"
    THEN SizeRet(0, "doErr", ks, 1, "none", 0)
    ELSE IF head.cl < 0
    THEN SizeRet(0, "noContentLength", ks, 1, "no", head.cl)
    ELSE SizeRet(head.cl, "nil", Some(head.cl), 1, "no", head.cl)

Size(ks, head) ==
    IF ks # Nil
    THEN SizeRet(ks[1], "nil", ks, 0, "none", 0)
    ELSE IF head.fault = "newReq"
    THEN SizeRet(0, "urlErr", ks, 0, "none", 0)
    ELSE IF head.fault = "do"
    THEN SizeRet(0, "doErr", ks, 1, "none", 0)
    ELSE IF head.cl < 0
    THEN SizeRet(0, "noContentLength", ks, 1, "no", head.cl)
    ELSE SizeRet(head.cl, "nil", Some(head.cl), 1, "no", head.cl)

----------------------------------------------------------------------------
(* Seek *)

SeekRet(n, err, cur, sz) ==
    [n |-> n, err |-> err, offset |-> cur, ks |-> sz.ks, calls |-> sz.calls,
     closed |-> sz.closed, cl |-> sz.cl, fault |-> sz.fault]

\* the cursor after a SeekEnd whose target is out of range: s.offset is
\* assigned before the range is tested
SeekEndFailed(cur, new) == new

\* Seek(off, whence), `head` being what Do would answer to a HEAD request
SeekResult(cur, ks, off, whence, head) ==
    LET none == SizeRet(0, "nil", ks, 0, "none", 0)
    IN  CASE whence = SeekStart -> SeekRet(off, "nil", off, none)
          [] whence = SeekCurrent -> SeekRet(cur + off, "nil", cur + off, none)
          [] whence = SeekEnd ->
                LET sz == IF ks # Nil THEN SizeRet(ks[1], "nil", ks, 0, "none", 0)
                          ELSE Size(ks, head)
                    new == sz.n + off
                IN  IF sz.err # "nil" THEN SeekRet(0, sz.err, cur, sz)
                    ELSE IF new > sz.n \/ new < 0
                    THEN SeekRet(0, "EOF", SeekEndFailed(cur, new), sz)
                    ELSE SeekRet(new, "nil", new, sz)
          [] OTHER -> SeekRet(0, "ErrInvalid", cur, none)

----------------------------------------------------------------------------
(* The state machine *)

\* The caller is one goroutine: it makes a call, gets the result (lastOp),
\* and goes on to its next call (Return), the result being dropped.

\* the window as a call finds it: nil, or its offset and length
Window == IF last = Nil THEN Nil ELSE Some([off |-> lastOffset, len |-> Len(last[1])])

\* the record of a call that has returned
Op(name, buflen, off, length, r, ks0) ==
    [op |-> name, buflen |-> buflen, off |-> off, length |-> length,
     whence |-> 0, n |-> r.n, err |-> r.err, rawN |-> r.rawN, rawErr |-> r.rawErr,
     data |-> SubSeq(r.buf, 1, Min(r.n, Len(r.buf))),
     calls |-> r.calls, rng |-> r.rng, status |-> r.status, cl |-> r.cl,
     fault |-> r.fault, hit |-> r.hit, closed |-> r.closed, cur0 |-> offset, ks0 |-> ks0,
     win0 |-> Window]

NoOp == [op |-> "none", buflen |-> 0, off |-> 0, length |-> 0, whence |-> 0,
         n |-> 0, err |-> "nil", rawN |-> 0, rawErr |-> "nil", data |-> <<>>,
         calls |-> 0, rng |-> Nil, status |-> "none", cl |-> 0, fault |-> "none",
         hit |-> FALSE,
         closed |-> "none", cur0 |-> 0, ks0 |-> Nil, win0 |-> Nil]

Idle == lastOp.op = "none"

SeqRun(status, data, short) == [status |-> status, data |-> data, short |-> short]

\* NewWithClient, then the public fields the caller may set
Init ==
    /\ offset = 0
    /\ KnownSize \in {Nil, Some(ResSize)}
    /\ MinFetch \in {0, SmallFetch}
    /\ last = Nil
    /\ lastOffset = 0
    /\ url = Nil
    /\ chunk = 0
    /\ server \in Servers
    /\ lastOp = NoOp
    /\ faults = 0
    /\ prev = "other"
    /\ seq = SeqRun("running", <<>>, FALSE)

\* newReq parses s.URL only while s.url is nil, so it can fail only then
NewReqCanFail(u, resp) == resp.fault = "newReq" => u = Nil

\* the answers a GET for `rng`, and the HEAD of Size, may get
Answers(rng) == {resp \in Do(server, rng, faults) : NewReqCanFail(url, resp)}
HeadAnswers == {head \in HeadDo(server, faults) : NewReqCanFail(url, head)}

\* s.url after a call: set once a request has been built
UrlAfter(u, calls) == IF calls = 1 THEN Some("parsed") ELSE u

\* the call used the answer `resp`, and it was not the server's own
Deviated(r, resp) == resp.dev /\ (r.calls = 1 \/ r.err = "urlErr")

Store(s) ==
    /\ KnownSize' = s.KnownSize
    /\ last' = s.last
    /\ lastOffset' = s.lastOffset
    /\ UNCHANGED <<MinFetch, chunk, server, prev>>


\* the Read calls made so far are the only calls and none has failed
\* ("running"), or the last of them has ("done", `short` when it still
\* delivered bytes); data: the bytes they delivered, in order
SeqAfterRead(r) ==
    IF seq.status # "running" THEN SeqRun("off", <<>>, FALSE)
    ELSE SeqRun(IF r.err = "nil" THEN "running" ELSE "done",
                seq.data \o SubSeq(r.buf, 1, r.n),
                r.err # "nil" /\ r.n > 0)

\* another call ends the purely sequential run; when the run is over, a
\* ReadAt of the whole resource is the reference it is compared with
SeqAfterOther(ref) ==
    IF seq.status = "done" /\ ref THEN seq ELSE SeqRun("off", <<>>, FALSE)

\* what the next call is to know of the call that has returned; the fetch
\* and the probe are remembered while every answer so far was the server's own
Summary ==
    CASE /\ lastOp.op = "Seek"
         /\ lastOp.whence = SeekEnd
         /\ lastOp.off = 0
         /\ lastOp.err = "nil" -> "SeekEnd0"
      [] /\ lastOp.op = "Size"
         /\ faults = 0
         /\ lastOp.calls = 1
         /\ lastOp.err = "nil" -> "SizeProbed"
      [] /\ lastOp.op = "ReadAt"
         /\ faults = 0
         /\ lastOp.err = "nil"
         /\ lastOp.status \in {"200", "206"}
         /\ lastOp.buflen > 0
         /\ lastOp.buflen <= Len(last[1]) -> "ReadAtFetched"
      [] OTHER -> "other"

\* the buffers Read is called with
ReadBufLens == IF chunk = 0 THEN BufLens ELSE {chunk}

DoReadAtWithLength ==
    /\ Idle
    /\ \E buflen \in RawBufLens, off \in RawOffsets, length \in Lengths :
        \E resp \in Answers(RangeFor(Fields, off, length)) :
          LET r == ReadAtWithLength(Fields, MakeBuf(buflen), off, length, resp)
          IN  /\ Store(r.s)
              /\ url' = UrlAfter(url, r.calls)
              /\ faults' = faults + (IF Deviated(r, resp) THEN 1 ELSE 0)
              /\ offset' = offset
              /\ lastOp' = Op("ReadAtWithLength", buflen, off, length, r, KnownSize)
              /\ seq' = SeqAfterOther(FALSE)

DoReadAt ==
    /\ Idle
    /\ \E buflen \in BufLens, off \in ReadOffsets :
        \E resp \in Answers(RangeFor(Fields, off, buflen)) :
          LET r == ReadAt(Fields, MakeBuf(buflen), off, resp)
          IN  /\ Store(r.s)
              /\ url' = UrlAfter(url, r.calls)
              /\ faults' = faults + (IF Deviated(r, resp) THEN 1 ELSE 0)
              /\ offset' = offset
              /\ lastOp' = Op("ReadAt", buflen, off, buflen, r, KnownSize)
              /\ seq' = SeqAfterOther(buflen = ResSize /\ off = 0 /\ r.err = "nil")

DoRead ==
    /\ Idle
    /\ \E buflen \in ReadBufLens :
        \E resp \in Answers(RangeFor(Fields, offset, buflen)) :
          LET r == ReadAt(Fields, MakeBuf(buflen), offset, resp)
          IN  /\ ReadCursor(offset, r.n, r.err) \in CursorRange
              /\ Store(r.s)
              /\ url' = UrlAfter(url, r.calls)
              /\ faults' = faults + (IF Deviated(r, resp) THEN 1 ELSE 0)
              /\ offset' = ReadCursor(offset, r.n, r.err)
              /\ lastOp' = Op("Read", buflen, offset, buflen, r, KnownSize)
              /\ seq' = SeqAfterRead(r)

DoSeek ==
    /\ Idle
    /\ \E off \in SeekOffsets, whence \in Whences :
        \E head \in HeadAnswers :
          LET r == SeekResult(offset, KnownSize, off, whence, head)
          IN  /\ r.offset \in CursorRange
              /\ faults' = faults + (IF Deviated(r, head) THEN 1 ELSE 0)
              /\ offset' = r.offset
              /\ KnownSize' = r.ks
              /\ url' = UrlAfter(url, r.calls)
              /\ lastOp' = [NoOp EXCEPT !.op = "Seek", !.cur0 = offset, !.off = off,
                                        !.whence = whence, !.n = r.n, !.err = r.err,
                                        !.calls = r.calls, !.closed = r.closed,
                                        !.fault = r.fault, !.rawErr = r.err,
                                        !.cl = r.cl, !.ks0 = KnownSize]
              /\ seq' = SeqAfterOther(FALSE)
              /\ UNCHANGED <<MinFetch, last, lastOffset, chunk, server, prev>>

DoSize ==
    /\ Idle
    /\ \E head \in HeadAnswers :
          LET r == Size(KnownSize, head)
          IN  /\ KnownSize' = r.ks
              /\ url' = UrlAfter(url, r.calls)
              /\ faults' = faults + (IF Deviated(r, head) THEN 1 ELSE 0)
              /\ lastOp' = [NoOp EXCEPT !.op = "Size", !.n = r.n, !.err = r.err,
                                        !.calls = r.calls, !.closed = r.closed,
                                        !.fault = r.fault, !.rawErr = r.err,
                                        !.cl = r.cl, !.cur0 = offset,
                                        !.ks0 = KnownSize]
              /\ seq' = seq
              /\ UNCHANGED <<offset, MinFetch, last, lastOffset, chunk, server, prev>>

\* the caller has its result and goes on
Return ==
    /\ ~Idle
    /\ prev' = Summary
    /\ lastOp' = NoOp
    /\ UNCHANGED <<offset, KnownSize, MinFetch, last, lastOffset, url, chunk, server,
                   faults, seq>>

Next == DoReadAtWithLength \/ DoReadAt \/ DoRead \/ DoSeek \/ DoSize \/ Return

Spec == Init /\ [][Next]_vars

----------------------------------------------------------------------------
(* Sequential reading: a caller that does nothing but call Read with one
   buffer of positive length, from cursor 0, against a server that honours
   Range with no deviant answer; every Read it calls returns, and it calls
   the next one. *)

\* the buffer lengths of the sequential reader: below, at and above the
\* resource's size
Chunks == 1..(ResSize + 2)

InitSeq ==
    /\ offset = 0
    /\ KnownSize \in {Nil, Some(ResSize)}
    /\ MinFetch \in 0..SmallFetch
    /\ last = Nil
    /\ lastOffset = 0
    /\ url = Nil
    /\ chunk \in Chunks
    /\ server = "range"
    /\ faults = MaxFaults
    /\ lastOp = NoOp
    /\ prev = "other"
    /\ seq = SeqRun("running", <<>>, FALSE)

NextSeq == DoRead \/ Return

SpecSeq == InitSeq /\ [][NextSeq]_vars /\ WF_vars(NextSeq)

----------------------------------------------------------------------------
(* Properties *)

IsReadAt == lastOp.op \in {"ReadAt", "Read"}
IsReadRange == lastOp.op \in {"ReadAtWithLength", "ReadAt", "Read"}
Succeeded2xx == lastOp.status \in {"200", "206"}

\* C1: of two consecutive ReadAt calls whose ranges [off, off+len(buf)) both
\* lie inside the range the first call fetched, the second one invokes the
\* transport no more (the two together invoke it exactly once). Stated for
\* non-empty buffers and a server that answers as it should.
C1_CacheHitSecondCall ==
    [][(/\ Idle
        /\ prev = "ReadAtFetched"
        /\ lastOp'.op = "ReadAt"
        /\ faults' = 0
        /\ lastOp'.buflen > 0
        /\ lastOp'.off >= lastOffset
        /\ lastOp'.off + lastOp'.buflen <= lastOffset + Len(last[1]))
       => lastOp'.calls = 0]_vars

\* C2: the bytes of Read calls that start at cursor 0 and run to the end of
\* the resource, in any chunk sizes, are together the resource, and are the
\* bytes a single ReadAt(buf of ResSize, 0) returns, when the server answers
\* as it should.
C2_RoundTrip ==
    (faults = 0 /\ seq.status = "done")
    => /\ seq.data = Resource
       /\ (lastOp.op = "ReadAt" /\ lastOp.buflen = ResSize /\ lastOp.off = 0
           /\ lastOp.err = "nil") => lastOp.data = seq.data

\* a run that ended in a short last Read, followed by the reference ReadAt
C2_Witness ==
    /\ faults = 0
    /\ seq.status = "done"
    /\ seq.short
    /\ Len(seq.data) = ResSize
    /\ lastOp.op = "ReadAt" /\ lastOp.buflen = ResSize /\ lastOp.off = 0
    /\ lastOp.err = "nil"

\* C3: ReadAt returns at most len(buf); without an error it returns len(buf)
\* with every byte of the buffer written; a short count that met no error of
\* its own is io.EOF.
C3_ReadAtFillsOrSaysWhy ==
    IsReadAt
    => /\ lastOp.n >= 0 /\ lastOp.n <= lastOp.buflen
       /\ lastOp.err = "nil"
          => /\ lastOp.n = lastOp.buflen
             /\ \A i \in 1..Len(lastOp.data) : lastOp.data[i] # 0
       /\ (lastOp.n < lastOp.buflen /\ lastOp.rawErr = "nil") => lastOp.err = "EOF"

\* a fetch that came back short of the buffer and was turned into io.EOF
C3_Witness ==
    /\ lastOp.op = "ReadAt"
    /\ lastOp.calls = 1
    /\ lastOp.n > 0 /\ lastOp.n < lastOp.buflen
    /\ lastOp.rawErr = "nil" /\ lastOp.err = "EOF"

\* C4: Read leaves the cursor at cursor + n when it returns no error, and
\* where it was when it returns any error.
C4_ReadMovesCursorOnSuccessOnly ==
    lastOp.op = "Read"
    => offset = IF lastOp.err = "nil" THEN lastOp.cur0 + lastOp.n ELSE lastOp.cur0

\* a short Read: bytes delivered, io.EOF, the cursor not moved
C4_Witness ==
    /\ lastOp.op = "Read"
    /\ lastOp.err = "EOF"
    /\ lastOp.n > 0
    /\ offset = lastOp.cur0

\* C5: with the size S known before the call and 0 <= off <= S,
\* ReadAtWithLength returns at most S - off, on a cache hit and on a fetch,
\* and the Range it sends for off < S ends below S.
C5_KnownSizeBoundsTheRead ==
    (/\ IsReadRange
     /\ lastOp.ks0 # Nil
     /\ lastOp.off >= 0
     /\ lastOp.off <= lastOp.ks0[1])
    => /\ lastOp.rawN <= lastOp.ks0[1] - lastOp.off
       /\ lastOp.n <= lastOp.ks0[1] - lastOp.off
       /\ (lastOp.rng # Nil /\ lastOp.off < lastOp.ks0[1])
          => /\ lastOp.rng[1].from = lastOp.off
             /\ lastOp.rng[1].to < lastOp.ks0[1]

\* the transport sent back more bytes than were left below the known size
C5_Witness ==
    /\ lastOp.op = "ReadAtWithLength"
    /\ lastOp.ks0 # Nil
    /\ lastOp.off < lastOp.ks0[1]
    /\ Succeeded2xx /\ lastOp.err = "nil"
    /\ Len(last[1]) > lastOp.ks0[1] - lastOp.off
    /\ lastOp.length > lastOp.ks0[1] - lastOp.off
    /\ lastOp.rawN = lastOp.ks0[1] - lastOp.off

\* C6: once KnownSize is set, no call changes it.
C6_KnownSizeImmutable ==
    [][KnownSize # Nil => KnownSize' = KnownSize]_vars

\* a 200 response with another content-length, well read, the size being known
C6_Witness ==
    /\ lastOp.ks0 # Nil
    /\ lastOp.status = "200"
    /\ lastOp.err = "nil"
    /\ lastOp.cl # 0
    /\ lastOp.cl # lastOp.ks0[1]
    /\ KnownSize = lastOp.ks0

\* C7: after a Seek that returned no error the cursor is not negative.
C7_SeekKeepsCursorNonNegative ==
    (lastOp.op = "Seek" /\ lastOp.err = "nil") => offset >= 0

\* C8: a Seek that returned an error has left the cursor where it was.
C8_FailedSeekKeepsCursor ==
    (lastOp.op = "Seek" /\ lastOp.err # "nil") => offset = lastOp.cur0

\* C9: a Read into a buffer of positive length right after a Seek(0, SeekEnd)
\* that succeeded returns 0 bytes and an error; the error is io.EOF whenever
\* the answer, if one was needed, was a non-success status or a 200/206 whose
\* body was read and closed and whose content-length, when given, was right.
C9_ReadAtEndIsEOF ==
    (lastOp.op = "Read" /\ prev = "SeekEnd0" /\ lastOp.buflen > 0)
    => /\ lastOp.n = 0
       /\ lastOp.err # "nil"
       /\ (/\ lastOp.fault = "none"
           /\ Succeeded2xx => lastOp.cl \in {0, Len(last[1])})
          => lastOp.err = "EOF"

\* at the end, the window elsewhere: the transport answered 200 with the
\* whole resource
C9_Witness ==
    /\ lastOp.op = "Read" /\ prev = "SeekEnd0" /\ lastOp.buflen > 0
    /\ lastOp.status = "200"
    /\ Len(last[1]) = ResSize
    /\ lastOp.err = "EOF"

\* C10: a status that is neither 200 nor 206 makes ReadAtWithLength return
\* (0, io.EOF) and leaves the window, KnownSize and the cursor as they were.
C10_NonSuccessIsEOF ==
    [][lastOp'.status = "other"
       => /\ lastOp'.rawN = 0 /\ lastOp'.n = 0
          /\ lastOp'.rawErr = "EOF" /\ lastOp'.err = "EOF"
          /\ last' = last /\ lastOffset' = lastOffset
          /\ KnownSize' = KnownSize
          /\ offset' = offset]_vars

\* a non-success answer to a Read while a window fetched earlier is held
C10_Witness ==
    /\ lastOp.op = "Read"
    /\ lastOp.status = "other"
    /\ last # Nil /\ Len(last[1]) > 0

\* C11: the size is probed at most once. A Size() or a Seek from the end
\* that finds KnownSize set uses that value and does not invoke the
\* transport, whatever calls came before; a Size() that succeeds leaves
\* KnownSize set to the value it returned, so the call after a successful
\* probe sends no HEAD and sees the same value; a HEAD answer without a
\* content length is an error other than io.EOF and leaves KnownSize nil.
C11_SizeProbedAtMostOnce ==
    /\ (lastOp.op = "Size" /\ lastOp.ks0 # Nil)
          => /\ lastOp.calls = 0
             /\ lastOp.err = "nil"
             /\ lastOp.n = lastOp.ks0[1]
             /\ KnownSize = lastOp.ks0
    /\ (lastOp.op = "Seek" /\ lastOp.whence = SeekEnd /\ lastOp.ks0 # Nil)
          => /\ lastOp.calls = 0
             /\ KnownSize = lastOp.ks0
             /\ lastOp.err = "nil" => lastOp.n = lastOp.ks0[1] + lastOp.off
    /\ (lastOp.op = "Size" /\ lastOp.err = "nil") => KnownSize = Some(lastOp.n)
    /\ (prev = "SizeProbed" /\ lastOp.op \in {"Size", "Seek"})
          => /\ lastOp.calls = 0
             /\ lastOp.ks0 # Nil
             /\ KnownSize = lastOp.ks0
    /\ (lastOp.op = "Size" /\ lastOp.calls = 1 /\ lastOp.fault = "none"
            /\ lastOp.cl < 0)
          => /\ lastOp.err = "noContentLength"
             /\ lastOp.ks0 = Nil
             /\ KnownSize = Nil

\* a second Size() right after the one that probed: no HEAD, same value
C11_Witness ==
    /\ prev = "SizeProbed"
    /\ lastOp.op = "Size"
    /\ lastOp.calls = 0
    /\ lastOp.err = "nil"
    /\ lastOp.n = ResSize

\* C12: no response body is left open. Whenever the transport has returned
\* a response to a call, to a range GET or to the HEAD of the size probe,
\* that response's body has been closed when the call returns.
C12_NoBodyLeftOpen ==
    (lastOp.calls = 1 /\ lastOp.fault # "do") => lastOp.closed = "yes"

\* C13: ReadAtWithLength returns min(full length read, length), which may
\* be larger than len(buf): on a fetch the count is the smaller of the bytes
\* fetched and the length asked for (as amplified and capped), on a cache
\* hit it is that length, whatever the size of the buffer. Stated for a
\* server that answers as it should.
C13_ReturnsLengthRead ==
    (faults = 0 /\ lastOp.op = "ReadAtWithLength" /\ lastOp.rawErr = "nil")
        => LET l == EffLength([KnownSize |-> lastOp.ks0, MinFetch |-> MinFetch],
                              lastOp.off, lastOp.length)
           IN  /\ lastOp.hit => lastOp.rawN = l
               /\ ~lastOp.hit => lastOp.rawN = Min(Len(last[1]), l)

\* a call of the read path with a length below MinFetch that sent a request
Amplified ==
    /\ IsReadRange
    /\ MinFetch > 0
    /\ lastOp.length < MinFetch
    /\ lastOp.off >= 0
    /\ lastOp.rng # Nil

\* the window holds the bytes of the range the call asked for
WindowHoldsRangeAsked ==
    (faults = 0 /\ server = "range" /\ lastOp.status = "206" /\ lastOp.rawErr = "nil")
        => /\ last # Nil
           /\ lastOffset = lastOp.off
           /\ last[1] = RangeOf(lastOp.rng[1].from, lastOp.rng[1].to)

C15_MissOutsideWindow ==
    LET l == EffLength([KnownSize |-> lastOp.ks0, MinFetch |-> MinFetch],
                       lastOp.off, lastOp.length)
        w == lastOp.win0[1]
    IN  (/\ IsReadRange
         /\ lastOp.win0 # Nil
         /\ lastOp.off >= 0
         /\ l >= 0
         /\ \/ lastOp.off < w.off
            \/ lastOp.off + l > w.off + w.len)
        => /\ ~lastOp.hit
           /\ lastOp.calls = 1
           /\ lastOp.rng = Some(fmtRange(lastOp.off, l))

\* the window is [1, 2) and ReadAt(buf[2], 0) starts one byte before it:
\* the call fetches
C15_Witness ==
    /\ lastOp.op = "ReadAt"
    /\ lastOp.win0 = Some([off |-> 1, len |-> 1])
    /\ lastOp.off = 0
    /\ lastOp.buflen = 2
    /\ lastOp.calls = 1
    /\ lastOp.err = "nil"
    /\ lastOffset = 0

\* C16: a 200/206 answer whose content length is absent (negative) or zero
\* makes the read succeed with the number of bytes read from the body; the
\* length mismatch error arises only when the content length is given and
\* differs from the bytes read.
C16_ContentLengthFallback ==
    (IsReadRange /\ Succeeded2xx /\ lastOp.fault = "none")
        => /\ lastOp.cl <= 0
              => /\ lastOp.rawErr = "nil"
                 /\ lastOffset = lastOp.off
                 /\ lastOp.rawN =
                       Min(Min(Len(last[1]),
                               EffLength([KnownSize |-> lastOp.ks0, MinFetch |-> MinFetch],
                                         lastOp.off, lastOp.length)),
                           lastOp.buflen)
           /\ lastOp.rawErr = "mismatch"
              => lastOp.cl > 0 /\ lastOp.cl # Len(last[1])

\* C17: whenever a fetch succeeds on a 200 while KnownSize is nil, KnownSize
\* is afterwards the number of bytes fetched, whether the content length
\* was given and right or the fallback to the bytes read was taken; a 206
\* never sets KnownSize.
C17_SizeAdoption ==
    (IsReadRange /\ lastOp.calls = 1)
        => /\ (lastOp.status = "200" /\ lastOp.rawErr = "nil" /\ lastOp.ks0 = Nil)
                => KnownSize = Some(Len(last[1]))
           /\ lastOp.status = "206" => KnownSize = lastOp.ks0

\* C18: the window is that of the most recent fetch that returned success:
\* a fetch that ends in an error (the body could not be read, the length
\* did not match, the status was not a success, the transport failed)
\* leaves the window's offset and bytes as they were.
C18_FailedFetchKeepsWindow ==
    [][(/\ lastOp'.op \in {"ReadAtWithLength", "ReadAt", "Read"}
        /\ lastOp'.calls = 1
        /\ \/ lastOp'.rawErr \in {"readErr", "mismatch", "doErr"}
           \/ lastOp'.status = "other")
       => last' = last /\ lastOffset' = lastOffset]_vars

\* C19: the bytes served are the resource's bytes at the offset asked for:
\* byte i copied into the buffer is byte off + i of the resource, and byte j
\* of the window is byte lastOffset + j of the resource; on a cache hit, on
\* a 206 with the range, and on a 200 with the whole resource. Stated for a
\* server that answers as it should.
C19_ServedBytesAreResourceBytes ==
    (faults = 0 /\ IsReadRange /\ lastOp.rawErr = "nil")
        => /\ \A i \in 1..Len(lastOp.data) :
                /\ lastOp.off + i <= ResSize
                /\ lastOp.data[i] = Resource[lastOp.off + i]
           /\ last # Nil
                => \A j \in 1..Len(last[1]) :
                     /\ lastOffset + j <= ResSize
                     /\ last[1][j] = Resource[lastOffset + j]

\* C20: reading sequentially terminates. The caller that starts at cursor
\* 0 and calls Read again and again with one buffer of positive length
\* eventually gets io.EOF, the size known or not, for every MinFetch; and
\* every Read that returns no error leaves the cursor larger than it was.
C20_SequentialReadTerminates ==
    /\ <>(lastOp.op = "Read" /\ lastOp.err = "EOF")
    /\ [](lastOp.op = "Read" /\ lastOp.err = "nil" => offset > lastOp.cur0)

\* one byte at a time, size unknown: the Read at the end of the resource is
\* answered 416 and returns io.EOF after the whole resource was delivered
C20_Witness ==
    /\ chunk = 1
    /\ lastOp.op = "Read"
    /\ lastOp.ks0 = Nil
    /\ lastOp.cur0 = ResSize
    /\ lastOp.status = "other"
    /\ lastOp.err = "EOF"
    /\ seq = SeqRun("done", Resource, FALSE)

====
